---- MODULE Spec2Model ----
(***************************************************************************)
(* A model of scripts/generate-streak-assets.py: the palette LUT builder,  *)
(* the flame and star frame compositors, the GIF frame quantizer and the   *)
(* animation driver in main().                                             *)
(*                                                                         *)
(* Numbers.  Python floats that the code compares or truncates are         *)
(* modelled as exact rationals [num, den] (den > 0).  Stop positions and   *)
(* brightness values are drawn from rationals for which the comparisons    *)
(* and the truncations of the double computation agree with the exact      *)
(* ones.                                                                    *)
(***************************************************************************)
EXTENDS Integers, Sequences, FiniteSets, TLC

VARIABLES
    \* build_luts and its caller (lines 32-65, 148-158)
    stops,          \* the argument `stops`
    brightness,     \* the argument `brightness`
    stops_sorted,   \* the local list stops_sorted
    luts,           \* the returned (lut_r, lut_g, lut_b), <<>> before the return
    fill,           \* the caller's colorized gradient, <<>> while there is none
    err,            \* the exception in flight, "none" when there is none
    lpc,            \* position in build_luts / its caller
    \* rgba_to_gif_frame (lines 277-291)
    img,            \* the argument `img`: a sequence of (r, g, b, a) pixels
    alpha_threshold,\* the argument `alpha_threshold`
    colors,         \* the argument `colors`
    alpha,          \* the alpha channel of the frame
    pal,            \* the indexed frame `pal`, <<>> before the quantization
    transparent,    \* the paste mask `transparent`
    transparency,   \* pal.info["transparency"], -1 while it is unset
    gpc,            \* position in rgba_to_gif_frame
    \* render_flame_frame and render_star_frame (lines 135-213, 226-274).
    \* An image is the sequence of operations that made it, in postfix order.
    effect,         \* which of the two frame functions runs: "flame" or "star"
    size,           \* the argument `size`
    out_size,       \* the argument `out_size`
    phase,          \* the argument `t`, the phase
    linear,         \* flame: the cropped linear gradient
    layer,          \* flame: the local `fill`; star: the local `img`
    outer,          \* flame: the masked outer layer
    inner_fill,     \* flame: the masked inner layer
    composed,       \* flame: the local `composed`
    out,            \* the local `out`, the frame returned
    steps,          \* the compositing steps executed so far, in order
    rpc,            \* position in the frame function
    \* main (lines 294-335)
    flame_rgba,     \* the list `flame_rgba`
    star_rgba,      \* the list `star_rgba`
    flame_gif,      \* the list `flame_gif`
    star_gif,       \* the list `star_gif`
    files,          \* what has been saved under public/streak
    calls,          \* the frame-function calls made so far: <<effect, phase>>
    loop_i,         \* the index `i` of the comprehension that is running
    mpc             \* position in main

lutVars == <<stops, brightness, stops_sorted, luts, fill, err, lpc>>

gifVars == <<img, alpha_threshold, colors, alpha, pal, transparent, transparency, gpc>>

renderVars == <<effect, size, out_size, phase, linear, layer, outer, inner_fill, composed, out, steps, rpc>>

mainVars == <<flame_rgba, star_rgba, flame_gif, star_gif, files, calls, loop_i, mpc>>

vars == <<lutVars, gifVars, renderVars, mainVars>>

----------------------------------------------------------------------------
(* Bounds of the model *)

\* longest stop list handed to build_luts
MaxStops == 2

----------------------------------------------------------------------------
(* Rationals *)

R(n, d) == [num |-> n, den |-> d]

RLe(a, b) == a.num * b.den <= b.num * a.den

RLt(a, b) == a.num * b.den < b.num * a.den

REq(a, b) == a.num * b.den = b.num * a.den

RSub(a, b) == R(a.num * b.den - b.num * a.den, a.den * b.den)

\* floor of a rational (den > 0); \div rounds towards minus infinity
Floor(a) == a.num \div a.den

\* int(x) on a float: truncation towards zero
Trunc(a) == IF a.num >= 0 THEN a.num \div a.den ELSE -((-a.num) \div a.den)

\* round(x) of Python 3: to the nearest integer, a tie to the even one
RoundHalfEven(a) ==
    LET q == a.num \div a.den
        r == a.num % a.den
    IN  IF 2 * r < a.den THEN q
        ELSE IF 2 * r > a.den THEN q + 1
        ELSE IF q % 2 = 0 THEN q ELSE q + 1

\* round half up: the rounding the prose "round to nearest" usually means
RoundHalfUp(a) == (2 * a.num + a.den) \div (2 * a.den)

Min(S) == CHOOSE m \in S : \A k \in S : m <= k

----------------------------------------------------------------------------
(* PaletteStop, clamp, lerp, lerp_color *)

PaletteStop(at, color) == [at |-> at, color |-> color]

\* clamp(value, low, high) = max(low, min(high, value)) for low <= high
clamp(value, low, high) ==
    IF RLt(value, low) THEN low ELSE IF RLt(high, value) THEN high ELSE value

\* lerp(a, b, t) = a + (b - a) * t, a and b integers, t a rational
lerp(a, b, t) == R(a * t.den + (b - a) * t.num, t.den)

lerp_colorTrunc(a, b, t) == [c \in 1..3 |-> Trunc(lerp(a[c], b[c], t))]

lerp_color(a, b, t) == [c \in 1..3 |-> RoundHalfEven(lerp(a[c], b[c], t))]

----------------------------------------------------------------------------
(* build_luts, lines 32-65 *)

\* i / 255, the sample position of LUT entry i (0-based, as in the code)
SampleX(i) == R(i, 255)

\* 1e-6 of line 55
Epsilon == R(1, 1000000)

Zero == R(0, 1)

One == R(1, 1)

\* the list with `s` put after every element whose key is <= its key
InsertByAt(sorted, s) ==
    LET before == {k \in 1..Len(sorted) : RLe(sorted[k].at, s.at)}
        n == IF before = {} THEN 0 ELSE CHOOSE k \in before : \A m \in before : m <= k
    IN  SubSeq(sorted, 1, n) \o <<s>> \o SubSeq(sorted, n + 1, Len(sorted))

\* sorted(stops, key=lambda s: s.at): a stable sort by position
RECURSIVE SortByAt(_)
SortByAt(ss) ==
    IF Len(ss) = 0 THEN <<>>
    ELSE InsertByAt(SortByAt(SubSeq(ss, 1, Len(ss) - 1)), ss[Len(ss)])

\* a plausible slip: an empty palette is replaced by one black stop
ValidateDefaultStop(ss) ==
    [raise |-> FALSE,
     stops |-> IF Len(ss) = 0 THEN <<PaletteStop(Zero, <<0, 0, 0>>)>> ELSE ss]

\* lines 34-35: `if not stops_sorted: raise ValueError(...)`
Validate(ss) == [raise |-> Len(ss) = 0, stops |-> ss]

\* a plausible slip: the synthetic first stop takes the colour of the last stop
PadFirstWrongColor(ss) ==
    IF RLt(Zero, ss[1].at) THEN <<PaletteStop(Zero, ss[Len(ss)].color)>> \o ss ELSE ss

\* lines 36-37
PadFirst(ss) ==
    IF RLt(Zero, ss[1].at) THEN <<PaletteStop(Zero, ss[1].color)>> \o ss ELSE ss

\* a plausible slip: the upper boundary stop is never appended
PadLastMissing(ss) == ss

\* lines 38-39
PadLast(ss) ==
    IF RLt(ss[Len(ss)].at, One) THEN Append(ss, PaletteStop(One, ss[Len(ss)].color)) ELSE ss

\* line 50: stops_sorted[j].at <= x <= stops_sorted[j + 1].at (j 1-based here)
Brackets(ss, j, x) == RLe(ss[j].at, x) /\ RLe(x, ss[j + 1].at)

\* lines 49-53: the j at which the scan breaks, 0 when it runs to its end
FirstMatch(ss, x) ==
    LET M == {j \in 1..(Len(ss) - 1) : Brackets(ss, j, x)}
    IN  IF M = {} THEN 0 ELSE Min(M)

\* lines 47-53: the pair (lo, hi) after the scan
ScanPair(ss, x) ==
    LET j == FirstMatch(ss, x)
    IN  IF j = 0 THEN <<ss[1], ss[Len(ss)]>> ELSE <<ss[j], ss[j + 1]>>

\* line 55: span = max(1e-6, hi.at - lo.at)
Span(lo, hi) ==
    LET d == RSub(hi.at, lo.at)
    IN  IF RLt(d, Epsilon) THEN Epsilon ELSE d

\* a plausible slip: the factor measured from the wrong end of the segment
TFactorReversed(lo, hi, x) ==
    LET span == Span(lo, hi)
        d == RSub(hi.at, x)
        full == (span.num * d.den + span.den - 1) \div span.den
    IN  IF d.num <= 0 THEN Zero
        ELSE IF d.num >= full THEN One
        ELSE R(d.num * span.den, d.den * span.num)

\* line 56: t = clamp((x - lo.at) / span, 0.0, 1.0).  The quotient is compared
\* with 0 and 1 before it is formed: d >= span iff d.num >= ceil(span * d.den).
TFactor(lo, hi, x) ==
    LET span == Span(lo, hi)
        d == RSub(x, lo.at)
        full == (span.num * d.den + span.den - 1) \div span.den
    IN  IF d.num <= 0 THEN Zero
        ELSE IF d.num >= full THEN One
        ELSE R(d.num * span.den, d.den * span.num)

\* a plausible slip: the clamp of lines 58-60 left out
ChannelNoClamp(c, b) == Trunc(R(c * b.num, b.den))

\* lines 58-60: int(clamp(c * brightness, 0, 255))
Channel(c, b) == Trunc(clamp(R(c * b.num, b.den), R(0, 1), R(255, 1)))

\* lines 56-60 for a given pair: the (r, g, b) appended for sample x
EntryOf(lo, hi, x, b) ==
    LET rgb == lerp_color(lo.color, hi.color, TFactor(lo, hi, x))
    IN  [c \in 1..3 |-> Channel(rgb[c], b)]

\* lines 45-63: the three lists after the loop, entry i at index i + 1
FillLuts(ss, b) ==
    LET e == [i \in 0..255 |->
                LET p == ScanPair(ss, SampleX(i)) IN EntryOf(p[1], p[2], SampleX(i), b)]
    IN  [c \in 1..3 |-> [k \in 1..256 |-> e[k - 1][c]]]

\* gradient.point(lut) on a few gray levels of the gradient, lines 68-73
GradientLevels == <<0, 51, 128, 255>>

colorize_gradient(gradient, l) ==
    [p \in 1..Len(gradient) |-> <<l[1][gradient[p] + 1], l[2][gradient[p] + 1], l[3][gradient[p] + 1], 255>>]

----------------------------------------------------------------------------
(* The inputs build_luts is exercised on *)

\* stop positions: both ends, a position that is a sample (1/5 = 51/255),
\* and the two interior positions 0.3 and 0.7 that are not
Positions == {R(0, 1), R(1, 5), R(3, 10), R(7, 10), R(1, 1)}

\* the two end colours of the outer flame palette (lines 150, 154)
Colors == {<<255, 255, 246>>, <<235, 40, 6>>}

\* brightness multipliers: below zero, one, and above one
Brightnesses == {R(-1, 2), R(1, 1), R(5, 4)}

StopValues == {PaletteStop(p, c) : p \in Positions, c \in Colors}

StopLists == UNION {[1..n -> StopValues] : n \in 0..MaxStops}

----------------------------------------------------------------------------
(* The parts of the program that are not running *)

LutIdle ==
    /\ stops = <<>>
    /\ brightness = One
    /\ stops_sorted = <<>>
    /\ luts = <<>>
    /\ fill = <<>>
    /\ err = "none"
    /\ lpc = "idle"

GifIdle ==
    /\ img = <<>>
    /\ alpha_threshold = 0
    /\ colors = 0
    /\ alpha = <<>>
    /\ pal = <<>>
    /\ transparent = <<>>
    /\ transparency = -1
    /\ gpc = "idle"

RenderIdle ==
    /\ effect = "none"
    /\ size = 0
    /\ out_size = 0
    /\ phase = Zero
    /\ linear = <<>>
    /\ layer = <<>>
    /\ outer = <<>>
    /\ inner_fill = <<>>
    /\ composed = <<>>
    /\ out = <<>>
    /\ steps = <<>>
    /\ rpc = "idle"

MainIdle ==
    /\ flame_rgba = <<>>
    /\ star_rgba = <<>>
    /\ flame_gif = <<>>
    /\ star_gif = <<>>
    /\ files = {}
    /\ calls = <<>>
    /\ loop_i = 0
    /\ mpc = "idle"

notLutVars == <<gifVars, renderVars, mainVars>>

notGifVars == <<lutVars, renderVars, mainVars>>

notRenderVars == <<lutVars, gifVars, mainVars>>

notMainVars == <<lutVars, gifVars, renderVars>>

----------------------------------------------------------------------------
(* build_luts as its caller runs it: lines 148-158 call it and colorize *)

LutInit ==
    /\ GifIdle
    /\ RenderIdle
    /\ MainIdle
    /\ stops \in StopLists
    /\ brightness \in Brightnesses
    /\ stops_sorted = <<>>
    /\ luts = <<>>
    /\ fill = <<>>
    /\ err = "none"
    /\ lpc = "call"

\* line 33
SortStops ==
    /\ UNCHANGED notLutVars
    /\ lpc = "call"
    /\ stops_sorted' = SortByAt(stops)
    /\ lpc' = "validate"
    /\ UNCHANGED <<stops, brightness, luts, fill, err>>

\* lines 34-35
ValidateStops ==
    /\ UNCHANGED notLutVars
    /\ lpc = "validate"
    /\ LET v == Validate(stops_sorted)
       IN  IF v.raise
           THEN /\ err' = "ValueError"
                /\ lpc' = "raised"
                /\ UNCHANGED stops_sorted
           ELSE /\ stops_sorted' = v.stops
                /\ lpc' = "pad_first"
                /\ UNCHANGED err
    /\ UNCHANGED <<stops, brightness, luts, fill>>

\* lines 36-37
PadFirstStop ==
    /\ UNCHANGED notLutVars
    /\ lpc = "pad_first"
    /\ stops_sorted' = PadFirst(stops_sorted)
    /\ lpc' = "pad_last"
    /\ UNCHANGED <<stops, brightness, luts, fill, err>>

\* lines 38-39
PadLastStop ==
    /\ UNCHANGED notLutVars
    /\ lpc = "pad_last"
    /\ stops_sorted' = PadLast(stops_sorted)
    /\ lpc' = "loop"
    /\ UNCHANGED <<stops, brightness, luts, fill, err>>

\* lines 41-65: the loop over the 256 samples and the return
ComputeLuts ==
    /\ UNCHANGED notLutVars
    /\ lpc = "loop"
    /\ luts' = FillLuts(stops_sorted, brightness)
    /\ lpc' = "returned"
    /\ UNCHANGED <<stops, brightness, stops_sorted, fill, err>>

\* line 158: fill = colorize_gradient(linear, outer_luts)
Colorize ==
    /\ UNCHANGED notLutVars
    /\ lpc = "returned"
    /\ fill' = colorize_gradient(GradientLevels, luts)
    /\ lpc' = "colorized"
    /\ UNCHANGED <<stops, brightness, stops_sorted, luts, err>>

\* the ValueError leaves build_luts and the frame function that called it
Propagate ==
    /\ UNCHANGED notLutVars
    /\ lpc = "raised"
    /\ lpc' = "aborted"
    /\ UNCHANGED <<stops, brightness, stops_sorted, luts, fill, err>>

LutNext ==
    \/ SortStops
    \/ ValidateStops
    \/ PadFirstStop
    \/ PadLastStop
    \/ ComputeLuts
    \/ Colorize
    \/ Propagate

SpecLut == LutInit /\ [][LutNext]_vars

----------------------------------------------------------------------------
(* Properties of build_luts *)

LutReturned == lpc \in {"returned", "colorized"}

LutPadded == lpc \in {"loop", "returned", "colorized"}

\* entry i (0-based) of channel c of the returned LUTs
Entry(i, c) == luts[c][i + 1]

EntryRGB(i) == <<luts[1][i + 1], luts[2][i + 1], luts[3][i + 1]>>

MinStops == {s \in {stops[k] : k \in 1..Len(stops)} : \A k \in 1..Len(stops) : RLe(s.at, stops[k].at)}

MaxStopsAt == {s \in {stops[k] : k \in 1..Len(stops)} : \A k \in 1..Len(stops) : RLe(stops[k].at, s.at)}

DistinctPositions == \A j, k \in 1..Len(stops) : j # k => ~REq(stops[j].at, stops[k].at)

\* C2: for every non-empty stop list, in any order, and every brightness,
\* build_luts returns (no exception) three lists of exactly 256 entries, each
\* entry an integer in 0..255.
C2_LutShape ==
    /\ (Len(stops) > 0 => err = "none")
    /\ LutReturned =>
         /\ Len(luts) = 3
         /\ \A c \in 1..3 :
              /\ Len(luts[c]) = 256
              /\ \A k \in 1..256 : luts[c][k] \in 0..255

\* a returned LUT for an unsorted two-stop list whose brightness drives a
\* channel into the upper clamp
C2_Witness ==
    /\ lpc = "returned"
    /\ Len(stops) = 2
    /\ RLt(stops[2].at, stops[1].at)
    /\ brightness = R(5, 4)
    /\ \E k \in 1..256 : luts[1][k] = 255 /\ luts[3][k] < 255

\* C3: with brightness 1, when the lowest stop position is above 0 entry 0 is
\* exactly the colour of the lowest-position stop, and when the highest stop
\* position is below 1 entry 255 is exactly the colour of the highest one.
C3_BoundaryPadding ==
    (LutReturned /\ brightness = One) =>
        /\ (\A s \in MinStops : RLt(Zero, s.at)) =>
              /\ \E s \in MinStops : EntryRGB(0) = s.color
              /\ stops_sorted[1] = PaletteStop(Zero, EntryRGB(0))
        /\ (\A s \in MaxStopsAt : RLt(s.at, One)) =>
              /\ \E s \in MaxStopsAt : EntryRGB(255) = s.color
              /\ stops_sorted[Len(stops_sorted)] = PaletteStop(One, EntryRGB(255))

\* the example of the specification: stops only at 0.3 and 0.7, given out of
\* order, with different colours
C3_Witness ==
    /\ lpc = "returned"
    /\ brightness = One
    /\ stops = <<PaletteStop(R(7, 10), <<235, 40, 6>>), PaletteStop(R(3, 10), <<255, 255, 246>>)>>
    /\ EntryRGB(0) = <<255, 255, 246>>
    /\ EntryRGB(255) = <<235, 40, 6>>
    /\ Len(stops_sorted) = 4

\* C4: with an empty stop list build_luts raises before any LUT entry is
\* computed: no LUT is ever returned, the caller never gets a colorized
\* frame, and the error in flight is the ValueError of the emptiness check.
C4_EmptyFailsFast ==
    Len(stops) = 0 =>
        /\ luts = <<>>
        /\ fill = <<>>
        /\ lpc \in {"call", "validate", "raised", "aborted"}
        /\ (lpc \in {"raised", "aborted"} <=> err = "ValueError")

\* the exception has left the caller, and there is no frame
C4_Witness ==
    /\ Len(stops) = 0
    /\ lpc = "aborted"
    /\ err = "ValueError"
    /\ luts = <<>>
    /\ fill = <<>>

\* the unrounded value the prose describes: clamp(lerp(lo, hi, t) * brightness, 0, 255)
ScaledLerp(i, c) ==
    LET x == SampleX(i)
        p == ScanPair(stops_sorted, x)
        l == lerp(p[1].color[c], p[2].color[c], TFactor(p[1], p[2], x))
    IN  clamp(R(l.num * brightness.num, l.den * brightness.den), R(0, 1), R(255, 1))

\* n is an integer nearest to the rational a (either way on a tie)
IsNearest(n, a) ==
    LET d == n * a.den - a.num
    IN  2 * (IF d < 0 THEN -d ELSE d) <= a.den

\* C7 as stated: every entry is round_to_nearest(clamp(lerp(lo, hi, t) *
\* brightness, 0, 255)): interpolate, multiply, clamp, and only then round.
C7_AsStated ==
    LutReturned => \A i \in 0..255 : \A c \in 1..3 : IsNearest(Entry(i, c), ScaledLerp(i, c))

\* C7 amended: every entry is the interpolated channel rounded to the nearest
\* integer (a tie to the even one) first, then multiplied by brightness,
\* clamped to [0,255] and truncated towards zero.
C7_RoundThenScaleThenTruncate ==
    LutReturned =>
        \A i \in 0..255 : \A c \in 1..3 :
            LET x == SampleX(i)
                p == ScanPair(stops_sorted, x)
                rounded == RoundHalfEven(lerp(p[1].color[c], p[2].color[c], TFactor(p[1], p[2], x)))
                scaled == R(rounded * brightness.num, brightness.den)
            IN  Entry(i, c) = Trunc(clamp(scaled, R(0, 1), R(255, 1)))

\* a returned LUT with an entry that is not a nearest integer of the scaled
\* interpolation: the truncation after the multiplication shows
C7_Witness ==
    /\ lpc = "returned"
    /\ brightness = R(5, 4)
    /\ \E i \in 0..255 : \E c \in 1..3 :
          /\ ~IsNearest(Entry(i, c), ScaledLerp(i, c))
          /\ Entry(i, c) < 255

\* the interior stops of the padded list whose position is a sample position
BoundaryHits ==
    {<<j, i>> \in (2..(Len(stops_sorted) - 1)) \X (0..255) : REq(stops_sorted[j].at, SampleX(i))}

\* a bracketing rule with half-open segments [at_j, at_j+1), the last one closed
HalfOpenMatch(ss, x) ==
    LET M == {j \in 1..(Len(ss) - 1) :
                 /\ RLe(ss[j].at, x)
                 /\ (RLt(x, ss[j + 1].at) \/ (j = Len(ss) - 1 /\ RLe(x, ss[j + 1].at)))}
    IN  Min(M)

\* a bracketing rule that scans from the top: the last inclusive match
LastMatch(ss, x) ==
    LET M == {j \in 1..(Len(ss) - 1) : Brackets(ss, j, x)}
    IN  CHOOSE m \in M : \A k \in M : k <= m

\* the LUT entry for sample i when segment j is taken as the bracketing pair
EntryBySegment(j, i) ==
    EntryOf(stops_sorted[j], stops_sorted[j + 1], SampleX(i), brightness)

\* whichever segment is chosen at a stop boundary, and whichever of the three
\* bracketing rules is used, the LUT is the one build_luts returned
SameAtBoundaries ==
    /\ \A h \in BoundaryHits : EntryBySegment(h[1] - 1, h[2]) = EntryBySegment(h[1], h[2])
    /\ LutReturned =>
         \A i \in 0..255 :
            /\ EntryRGB(i) = EntryBySegment(HalfOpenMatch(stops_sorted, SampleX(i)), i)
            /\ EntryRGB(i) = EntryBySegment(LastMatch(stops_sorted, SampleX(i)), i)

C10_AlwaysBracketed ==
    LutPadded =>
        \A i \in 0..255 :
            LET j == FirstMatch(stops_sorted, SampleX(i))
            IN  /\ j \in 1..(Len(stops_sorted) - 1)
                /\ ScanPair(stops_sorted, SampleX(i)) = <<stops_sorted[j], stops_sorted[j + 1]>>
                /\ RLe(stops_sorted[j].at, SampleX(i)) /\ RLe(SampleX(i), stops_sorted[j + 1].at)
                /\ i < 255 => j <= FirstMatch(stops_sorted, SampleX(i + 1))

\* a padded four-stop list whose scan breaks at the first, the second and the
\* third pair as i grows
C10_Witness ==
    /\ lpc = "loop"
    /\ Len(stops_sorted) = 4
    /\ FirstMatch(stops_sorted, SampleX(0)) = 1
    /\ FirstMatch(stops_sorted, SampleX(128)) = 2
    /\ FirstMatch(stops_sorted, SampleX(255)) = 3

----------------------------------------------------------------------------
(* rgba_to_gif_frame, lines 277-291 *)

\* most pixels of a frame handed to the quantizer
MaxPixels == 2

\* pixels: two colours, each fully transparent, at the default threshold,
\* just above it, and opaque
PixelValues == {<<c[1], c[2], c[3], a>> : c \in {<<255, 0, 0>>, <<0, 0, 255>>}, a \in {0, 8, 9, 255}}

Frames == UNION {[1..n -> PixelValues] : n \in 1..MaxPixels}

\* the default threshold of line 277 and a higher one
Thresholds == {8, 128}

\* palette sizes: a single entry, and room for every colour of the frame
PaletteSizes == {1, 4}

Range(f) == {f[k] : k \in DOMAIN f}

\* lines 281-286: rgba.convert("P", palette=ADAPTIVE, colors=colors, dither=NONE).
\* The library builds the palette from the colours of the frame, filling the
\* entries from index 0, and gives each pixel the index of its entry: equal
\* pixels get equal indices, at most `colors` entries are used, and the used
\* entries are 0..m-1.  Which colour gets which entry is the library's choice.
Quantizations(rgba, n) ==
    LET used == Range(rgba)
        maps == {q \in [used -> 0..(n - 1)] :
                    \E m \in 1..n : {q[u] : u \in used} = 0..(m - 1)}
    IN  {[p \in 1..Len(rgba) |-> q[rgba[p]]] : q \in maps}

\* line 288: Image.eval(alpha, lambda a: 255 if a <= alpha_threshold else 0)
TransparentMask(a, threshold) ==
    [p \in 1..Len(a) |-> IF a[p] <= threshold THEN 255 ELSE 0]

\* line 289: pal.paste(0, transparent): index 0 where the mask is 255
PasteZero(indexed, mask) ==
    [p \in 1..Len(indexed) |-> IF mask[p] = 255 THEN 0 ELSE indexed[p]]

GifInit ==
    /\ LutIdle
    /\ RenderIdle
    /\ MainIdle
    /\ img \in Frames
    /\ alpha_threshold \in Thresholds
    /\ colors \in PaletteSizes
    /\ alpha = <<>>
    /\ pal = <<>>
    /\ transparent = <<>>
    /\ transparency = -1
    /\ gpc = "call"

\* lines 278-279: the frame is RGBA already; its alpha channel
GetAlpha ==
    /\ gpc = "call"
    /\ alpha' = [p \in 1..Len(img) |-> img[p][4]]
    /\ gpc' = "quantize"
    /\ UNCHANGED <<img, alpha_threshold, colors, pal, transparent, transparency>>
    /\ UNCHANGED notGifVars

\* lines 281-286
Quantize ==
    /\ gpc = "quantize"
    /\ pal' \in Quantizations(img, colors)
    /\ gpc' = "mask"
    /\ UNCHANGED <<img, alpha_threshold, colors, alpha, transparent, transparency>>
    /\ UNCHANGED notGifVars

\* line 288
EvalTransparent ==
    /\ gpc = "mask"
    /\ transparent' = TransparentMask(alpha, alpha_threshold)
    /\ gpc' = "paste"
    /\ UNCHANGED <<img, alpha_threshold, colors, alpha, pal, transparency>>
    /\ UNCHANGED notGifVars

\* line 289
Paste ==
    /\ gpc = "paste"
    /\ pal' = PasteZero(pal, transparent)
    /\ gpc' = "info"
    /\ UNCHANGED <<img, alpha_threshold, colors, alpha, transparent, transparency>>
    /\ UNCHANGED notGifVars

\* lines 290-291
SetTransparency ==
    /\ gpc = "info"
    /\ transparency' = 0
    /\ gpc' = "returned"
    /\ UNCHANGED <<img, alpha_threshold, colors, alpha, pal, transparent>>
    /\ UNCHANGED notGifVars

GifNext ==
    \/ GetAlpha
    \/ Quantize
    \/ EvalTransparent
    \/ Paste
    \/ SetTransparency

SpecGif == GifInit /\ [][GifNext]_vars

\* C1: in the indexed frame rgba_to_gif_frame returns, a pixel carries the
\* reserved transparent index 0 if and only if its source alpha is at most
\* alpha_threshold.
C1_AsStated ==
    gpc = "returned" =>
        \A p \in 1..Len(img) : (pal[p] = transparency) <=> (img[p][4] <= alpha_threshold)

----------------------------------------------------------------------------
(* Phase arithmetic of the frame functions: math.sin on IEEE doubles.       *)
(* A value is [m, e]: m millionths plus e units of 2^-62.  e is kept only  *)
(* where the sine is one of 0, 1/2, -1/2 and so sits on a truncation        *)
(* boundary; there it is the double's distance from that value.            *)

\* frames = 24 of main()
frames == 24

Micro == 1000 * 1000

\* 10^6 * sin(2 pi a / 600) for a = 0..150, rounded
SinQuarter == <<
    0, 10472, 20942, 31411, 41876, 52336, 62791, 73238, 83678, 94108,
    104528, 114937, 125333, 135716, 146083, 156434, 166769, 177085, 187381, 197657,
    207912, 218143, 228351, 238533, 248690, 258819, 268920, 278991, 289032, 299041,
    309017, 318959, 328867, 338738, 348572, 358368, 368125, 377841, 387516, 397148,
    406737, 416281, 425779, 435231, 444635, 453990, 463296, 472551, 481754, 490904,
    500000, 509041, 518027, 526956, 535827, 544639, 553392, 562083, 570714, 579281,
    587785, 596225, 604599, 612907, 621148, 629320, 637424, 645458, 653421, 661312,
    669131, 676876, 684547, 692143, 699663, 707107, 714473, 721760, 728969, 736097,
    743145, 750111, 756995, 763796, 770513, 777146, 783693, 790155, 796530, 802817,
    809017, 815128, 821149, 827081, 832921, 838671, 844328, 849893, 855364, 860742,
    866025, 871214, 876307, 881303, 886204, 891007, 895712, 900319, 904827, 909236,
    913545, 917755, 921863, 925871, 929776, 933580, 937282, 940881, 944376, 947768,
    951057, 954240, 957319, 960294, 963163, 965926, 968583, 971134, 973579, 975917,
    978148, 980271, 982287, 984196, 985996, 987688, 989272, 990748, 992115, 993373,
    994522, 995562, 996493, 997314, 998027, 998630, 999123, 999507, 999781, 999945,
    1000000 >>

\* 10^6 * sin of a/600 of a turn, by the symmetries of the sine
SinMicro(a) ==
    LET r == a % 600
    IN  IF r <= 150 THEN SinQuarter[r + 1]
        ELSE IF r <= 300 THEN SinQuarter[300 - r + 1]
        ELSE IF r <= 450 THEN -SinQuarter[r - 300 + 1]
        ELSE -SinQuarter[600 - r + 1]

\* math.sin(2 * math.pi * t) minus its exact value, in units of 2^-62, for the
\* phases t = a/600 <= 1 at which the exact value is 0 or +-1/2 (2 * math.pi is
\* a double just below 2 pi, and t itself is rounded)
SinResidual(a) ==
    CASE a = 50 -> -256
      [] a = 250 -> -256
      [] a = 300 -> 565
      [] a = 350 -> -512
      [] a = 550 -> -2048
      [] a = 600 -> -1130
      [] OTHER -> 0

\* the angle of t + c/100 in 1/600 of a turn (t a multiple of 1/600)
TurnIndex(t, c) == (600 * t.num) \div t.den + 6 * c

\* math.sin(2 * math.pi * (t + c/100)); the offsets c of the code never put
\* t + c/100 on a boundary value unless c = 0
Sin2Pi(t, c) ==
    [m |-> SinMicro(TurnIndex(t, c)),
     e |-> IF c = 0 THEN SinResidual(TurnIndex(t, c)) ELSE 0]

RECURSIVE Pow2(_)
Pow2(n) == IF n = 0 THEN 1 ELSE 2 * Pow2(n - 1)

Abs(n) == IF n < 0 THEN -n ELSE n

\* 10^6 * 2^p
Pow2Micro(p) == IF p >= 0 THEN Micro * Pow2(p) ELSE Micro \div Pow2(-p)

\* the binary exponent of the double m / 10^6
Exponent(m) == CHOOSE p \in -4..8 : Pow2Micro(p) <= Abs(m) /\ Abs(m) < Pow2Micro(p + 1)

\* the spacing of the doubles next to m / 10^6 on the side of `tiny`, in units
\* of 2^-62: one ulp, half of it below a power of two
Spacing(m, tiny) ==
    LET p == Exponent(m)
        towardsZero == (m > 0 /\ tiny.num < 0) \/ (m < 0 /\ tiny.num > 0)
    IN  IF Abs(m) = Pow2Micro(p) /\ towardsZero THEN Pow2(p + 9) ELSE Pow2(p + 10)

\* the residue left when m / 10^6 + tiny is rounded to the nearest double
RoundToGrid(m, tiny) ==
    LET sp == Spacing(m, tiny)
    IN  sp * RoundHalfEven(R(tiny.num, tiny.den * sp))

\* c * x for a constant c = cn / cd
FScale(cn, cd, x) ==
    LET m == (cn * x.m) \div cd
    IN  [m |-> m,
         e |-> IF x.e = 0 THEN 0
               ELSE IF m = 0 THEN (cn * x.e) \div cd
               ELSE RoundToGrid(m, R(cn * x.e, cd))]

\* a + x for a constant a, given in millionths
FAdd(a, x) ==
    [m |-> a + x.m,
     e |-> IF x.e = 0 THEN 0 ELSE RoundToGrid(a + x.m, R(x.e, 1))]

\* int(x)
FInt(x) ==
    LET n == Trunc(R(x.m, Micro))
    IN  IF x.e # 0 /\ x.m % Micro = 0
        THEN IF x.m > 0 /\ x.e < 0 THEN n - 1
             ELSE IF x.m < 0 /\ x.e > 0 THEN n + 1
             ELSE n
        ELSE n

\* lines 139-141: crop_y = int(clamp(int(margin / 2 + 12 * wobble), 0, margin))
margin == 56

CropY(t) ==
    LET y == FInt(FAdd((margin \div 2) * Micro, FScale(12, 1, Sin2Pi(t, 0))))
    IN  IF y < 0 THEN 0 ELSE IF y > margin THEN margin ELSE y

\* line 164: the highlight offset
HighlightDx(t) == FInt(FScale(8, 1, Sin2Pi(t, 17)))

HighlightDy(t) == FInt(FAdd(-18 * Micro, FScale(6, 1, Sin2Pi(t, 0))))

\* line 184: the inner glow offset
InnerGlowDy(t) == FInt(FAdd(-26 * Micro, FScale(4, 1, Sin2Pi(t, 0))))

\* line 201: ember_on = 0.45 + 0.55 * sin(2 pi (t + 0.52))
EmberOn(t) == FAdd(450000, FScale(55, 100, Sin2Pi(t, 52)))

\* line 202: ember_on > 0.55
EmberLit(t) == EmberOn(t).m > 550000

\* line 206: the ember's alpha
EmberAlpha(t) == FInt(FScale(140, 1, EmberOn(t)))

\* lines 230-231
Pulse(t) == FAdd(500000, FScale(1, 2, Sin2Pi(t, 0)))

Pulse2(t) == FAdd(500000, FScale(1, 2, Sin2Pi(t, 27)))

\* lines 244, 249, 250, 257, 263: the alphas of the star's primitives
CoreAlpha(t) == FInt(FAdd(150 * Micro, FScale(60, 1, Pulse2(t))))

StreakHAlpha(t) == FInt(FAdd(90 * Micro, FScale(80, 1, Pulse2(t))))

StreakVAlpha(t) == FInt(FAdd(80 * Micro, FScale(70, 1, Pulse(t))))

TwinkleAlpha(t) == FInt(FAdd(90 * Micro, FScale(80, 1, Pulse(t))))

Twinkle2Alpha(t) == FInt(FAdd(60 * Micro, FScale(70, 1, Pulse2(t))))

----------------------------------------------------------------------------
(* Images.  An image is the postfix sequence of the operations that made    *)
(* it; two images are the same when the same operations with the same      *)
(* arguments made them.  Integer arguments are the code's integers; float  *)
(* arguments are carried in millionths (sines) or as the code's factors.    *)

Tok(op, args) == <<[op |-> op, args |-> args]>>

\* Image.alpha_composite(dst, src): src over dst
alpha_composite(dst, src) == dst \o src \o Tok("alpha_composite", <<>>)

\* lines 76-79
alpha_overlay(color, alpha_mask) == alpha_mask \o Tok("alpha_overlay", color)

\* im.putalpha(mask)
putalpha(im, mask) == im \o mask \o Tok("putalpha", <<>>)

\* im.point(lambda v: int(v * percent / 100))
point(im, percent) == im \o Tok("point", <<percent>>)

\* ImageChops.offset(im, dx, dy)
offset(im, dx, dy) == im \o Tok("offset", <<dx, dy>>)

\* im.filter(GaussianBlur(radius = sz * permille / 1000))
gaussian_blur(im, sz, permille) == im \o Tok("gaussian_blur", <<sz, permille>>)

\* lines 82-132: the flame silhouette; scale in hundredths, the biases in
\* thousandths of the canvas size
draw_flame_mask(sz, ph, scale, y_bias, x_bias) ==
    LET shape == Tok("flame_shape",
                     <<sz, scale, y_bias, x_bias,
                       Sin2Pi(ph, 0).m, Sin2Pi(ph, 23).m, Sin2Pi(ph, 41).m>>)
    IN  gaussian_blur(shape, sz, 8) \o Tok("contrast", <<115>>)

\* lines 149-155 and 175-180: position in hundredths, then the colour
OuterStops == <<0, 255, 255, 246,  18, 255, 242, 170,  48, 255, 176, 50,
                74, 255, 106, 18,  100, 235, 40, 6>>

InnerStops == <<0, 255, 255, 255,  28, 255, 248, 196,  62, 255, 212, 106,
                100, 255, 150, 40>>

\* colorize_gradient(gradient, build_luts(palette, 1.0 + amp/100 * sin(2 pi (t + c/100))))
Colorized(gradient, palette, ph, amp, c) ==
    gradient \o Tok("colorize", palette \o <<FAdd(Micro, FScale(amp, 100, Sin2Pi(ph, c))).m>>)

\* lines 137-142
FlameLinear(sz, ph) ==
    Tok("linear_gradient", <<sz, sz + margin>>)
        \o Tok("crop", <<0, CropY(ph), sz, CropY(ph) + sz>>)

\* line 144
Edge(sz) == Tok("radial_gradient", <<sz, sz>>)

\* line 145
Center(sz) == Edge(sz) \o Tok("invert", <<>>)

\* lines 147-158
OuterFill(lin, ph) == Colorized(lin, OuterStops, ph, 5, 8)

\* lines 161-162
ShadeOverlay(sz) == alpha_overlay(<<0, 0, 0>>, point(Edge(sz), 18))

Shade(f, sz) == alpha_composite(f, ShadeOverlay(sz))

\* lines 164-166
HighlightOverlay(sz, ph) ==
    alpha_overlay(<<255, 255, 255>>,
                  point(offset(Center(sz), HighlightDx(ph), HighlightDy(ph)), 36))

Highlight(f, sz, ph) == alpha_composite(f, HighlightOverlay(sz, ph))

\* lines 168-170
OuterLayer(f, sz, ph) == putalpha(f, draw_flame_mask(sz, ph, 100, 0, 0))

\* lines 173-187
InnerLayer(lin, sz, ph) ==
    LET inner_mask == draw_flame_mask(sz, ph, 62, -20, 10)
        colored == Colorized(lin, InnerStops, ph, 3, 33)
        inner_alpha == point(offset(Center(sz), 0, InnerGlowDy(ph)), 42)
    IN  putalpha(alpha_composite(colored, alpha_overlay(<<255, 255, 255>>, inner_alpha)),
                 inner_mask)

\* line 189
InnerOverOuter(o, i) == alpha_composite(o, i)

\* lines 192-195: blur, brighten, alpha scaled by `percent`
GlowOf(im, sz, permille, bright, percent) ==
    LET glow == gaussian_blur(im, sz, permille) \o Tok("brightness", <<bright>>)
    IN  putalpha(glow, point(glow \o Tok("getchannel_A", <<>>), percent))

\* a plausible slip: the glow composited over the sharp image
GlowOnTop(im, sz) == alpha_composite(im, GlowOf(im, sz, 20, 115, 70))

\* lines 192-196: the glow goes underneath
GlowUnder(im, sz) == alpha_composite(GlowOf(im, sz, 20, 115, 70), im)

\* lines 203-207
Ember(sz, ph) ==
    gaussian_blur(Tok("new", <<sz, sz>>)
                    \o Tok("ellipse", <<Sin2Pi(ph, 12).m, Sin2Pi(ph, 64).m, EmberOn(ph).m,
                                        255, 255, 255, EmberAlpha(ph)>>),
                  sz, 6)

\* lines 199-208
EmberOnTop(im, sz, ph) ==
    IF EmberLit(ph) THEN alpha_composite(im, Ember(sz, ph)) ELSE im

\* lines 211 and 272
Downscale(im, osz) == im \o Tok("resize_lanczos", <<osz, osz>>)

\* lines 212 and 273: radius in tenths
Sharpen(im, radius, percent) == im \o Tok("unsharp_mask", <<radius, percent, 2>>)

\* lines 135-213
render_flame_frame(sz, osz, ph) ==
    LET lin == FlameLinear(sz, ph)
        f == Highlight(Shade(OuterFill(lin, ph), sz), sz, ph)
        sharp == InnerOverOuter(OuterLayer(f, sz, ph), InnerLayer(lin, sz, ph))
    IN  Sharpen(Downscale(EmberOnTop(GlowUnder(sharp, sz), sz, ph), osz), 12, 160)

\* lines 216-223 with 232: the star outline; radii in ten-thousandths of the
\* canvas size, the rotation as a factor (in tenths) of (pi/10) sin(2 pi (t + 0.10))
StarPolygon(im, ph, kind, rot, pulse, a) ==
    im \o Tok("polygon", <<kind, rot, Sin2Pi(ph, 10).m, pulse.m>> \o a)

\* line 248: streak_w = max(2, int(size * 0.010))
StreakW(sz) == IF sz \div 100 > 2 THEN sz \div 100 ELSE 2

\* lines 227-241
StarMain(sz, ph) ==
    StarPolygon(Tok("new", <<sz, sz>>), ph, 1, 10, Pulse(ph), <<255, 220, 80, 240>>)

\* lines 243-244
StarCore(im, ph) == StarPolygon(im, ph, 2, 10, Pulse(ph), <<255, 255, 255, CoreAlpha(ph)>>)

\* lines 246-250
StarStreaks(im, sz, ph) ==
    im \o Tok("line", <<1, Pulse(ph).m, 255, 255, 255, StreakHAlpha(ph), StreakW(sz)>>)
       \o Tok("line", <<2, Pulse(ph).m, 255, 255, 255, StreakVAlpha(ph), StreakW(sz)>>)

\* lines 252-263
StarTwinkles(im, ph) ==
    StarPolygon(StarPolygon(im, ph, 3, -13, Pulse(ph), <<255, 255, 255, TwinkleAlpha(ph)>>),
                ph, 4, 11, Pulse2(ph), <<255, 255, 255, Twinkle2Alpha(ph)>>)

\* lines 265-270
StarGlow(im, sz) == alpha_composite(GlowOf(im, sz, 18, 112, 80), im)

\* lines 226-274
render_star_frame(sz, osz, ph) ==
    LET drawn == StarTwinkles(StarStreaks(StarCore(StarMain(sz, ph), ph), sz, ph), ph)
    IN  Sharpen(Downscale(StarGlow(drawn, sz), osz), 10, 140)

render_frame(fx, sz, osz, ph) ==
    IF fx = "flame" THEN render_flame_frame(sz, osz, ph) ELSE render_star_frame(sz, osz, ph)

----------------------------------------------------------------------------
(* The frame functions, step by step *)

\* canvas sizes: the one of main() and the one of the end-to-end scenario
CanvasSizes == {320, 64}

OutputSizes == {64, 32}

\* the phases i / frames of the driver, and 1.0, one period after phase 0
Phases == {R(k, frames) : k \in 0..frames}

RenderInit ==
    /\ LutIdle
    /\ GifIdle
    /\ MainIdle
    /\ effect \in {"flame", "star"}
    /\ size \in CanvasSizes
    /\ out_size \in OutputSizes
    /\ phase \in Phases
    /\ linear = <<>>
    /\ layer = <<>>
    /\ outer = <<>>
    /\ inner_fill = <<>>
    /\ composed = <<>>
    /\ out = <<>>
    /\ steps = <<>>
    /\ rpc = "call"

\* lines 137-145
FlameGradients ==
    /\ effect = "flame" /\ rpc = "call"
    /\ linear' = FlameLinear(size, phase)
    /\ rpc' = "outer_fill"
    /\ UNCHANGED <<effect, size, out_size, phase, layer, outer, inner_fill, composed, out, steps>>
    /\ UNCHANGED notRenderVars

\* lines 147-158
FlameOuterFill ==
    /\ rpc = "outer_fill"
    /\ layer' = OuterFill(linear, phase)
    /\ rpc' = "shade"
    /\ UNCHANGED <<effect, size, out_size, phase, linear, outer, inner_fill, composed, out, steps>>
    /\ UNCHANGED notRenderVars

\* lines 160-162
FlameShade ==
    /\ rpc = "shade"
    /\ layer' = Shade(layer, size)
    /\ steps' = Append(steps, "shade")
    /\ rpc' = "highlight"
    /\ UNCHANGED <<effect, size, out_size, phase, linear, outer, inner_fill, composed, out>>
    /\ UNCHANGED notRenderVars

\* lines 164-166
FlameHighlight ==
    /\ rpc = "highlight"
    /\ layer' = Highlight(layer, size, phase)
    /\ steps' = Append(steps, "highlight")
    /\ rpc' = "outer_mask"
    /\ UNCHANGED <<effect, size, out_size, phase, linear, outer, inner_fill, composed, out>>
    /\ UNCHANGED notRenderVars

\* lines 168-170
FlameOuterMask ==
    /\ rpc = "outer_mask"
    /\ outer' = OuterLayer(layer, size, phase)
    /\ steps' = Append(steps, "mask_apply")
    /\ rpc' = "inner"
    /\ UNCHANGED <<effect, size, out_size, phase, linear, layer, inner_fill, composed, out>>
    /\ UNCHANGED notRenderVars

\* lines 172-187
FlameInner ==
    /\ rpc = "inner"
    /\ inner_fill' = InnerLayer(linear, size, phase)
    /\ rpc' = "compose"
    /\ UNCHANGED <<effect, size, out_size, phase, linear, layer, outer, composed, out, steps>>
    /\ UNCHANGED notRenderVars

\* line 189
FlameCompose ==
    /\ rpc = "compose"
    /\ composed' = InnerOverOuter(outer, inner_fill)
    /\ steps' = Append(steps, "inner_over_outer")
    /\ rpc' = "glow"
    /\ UNCHANGED <<effect, size, out_size, phase, linear, layer, outer, inner_fill, out>>
    /\ UNCHANGED notRenderVars

\* lines 191-196
FlameGlow ==
    /\ rpc = "glow"
    /\ composed' = GlowUnder(composed, size)
    /\ steps' = Append(steps, "glow_under_sharp")
    /\ rpc' = "ember"
    /\ UNCHANGED <<effect, size, out_size, phase, linear, layer, outer, inner_fill, out>>
    /\ UNCHANGED notRenderVars

\* lines 198-208
FlameEmber ==
    /\ rpc = "ember"
    /\ composed' = EmberOnTop(composed, size, phase)
    /\ steps' = IF EmberLit(phase) THEN Append(steps, "ember_on_top") ELSE steps
    /\ rpc' = "downscale"
    /\ UNCHANGED <<effect, size, out_size, phase, linear, layer, outer, inner_fill, out>>
    /\ UNCHANGED notRenderVars

\* line 211
FlameDownscale ==
    /\ effect = "flame" /\ rpc = "downscale"
    /\ out' = Downscale(composed, out_size)
    /\ steps' = Append(steps, "downscale")
    /\ rpc' = "sharpen"
    /\ UNCHANGED <<effect, size, out_size, phase, linear, layer, outer, inner_fill, composed>>
    /\ UNCHANGED notRenderVars

\* lines 212-213
FlameSharpen ==
    /\ effect = "flame" /\ rpc = "sharpen"
    /\ out' = Sharpen(out, 12, 160)
    /\ steps' = Append(steps, "sharpen")
    /\ rpc' = "done"
    /\ UNCHANGED <<effect, size, out_size, phase, linear, layer, outer, inner_fill, composed>>
    /\ UNCHANGED notRenderVars

\* lines 227-241
StarDrawMain ==
    /\ effect = "star" /\ rpc = "call"
    /\ layer' = StarMain(size, phase)
    /\ rpc' = "core"
    /\ UNCHANGED <<effect, size, out_size, phase, linear, outer, inner_fill, composed, out, steps>>
    /\ UNCHANGED notRenderVars

\* lines 243-244
StarDrawCore ==
    /\ rpc = "core"
    /\ layer' = StarCore(layer, phase)
    /\ rpc' = "streaks"
    /\ UNCHANGED <<effect, size, out_size, phase, linear, outer, inner_fill, composed, out, steps>>
    /\ UNCHANGED notRenderVars

\* lines 246-250
StarDrawStreaks ==
    /\ rpc = "streaks"
    /\ layer' = StarStreaks(layer, size, phase)
    /\ rpc' = "twinkles"
    /\ UNCHANGED <<effect, size, out_size, phase, linear, outer, inner_fill, composed, out, steps>>
    /\ UNCHANGED notRenderVars

\* lines 252-263
StarDrawTwinkles ==
    /\ rpc = "twinkles"
    /\ layer' = StarTwinkles(layer, phase)
    /\ rpc' = "star_glow"
    /\ UNCHANGED <<effect, size, out_size, phase, linear, outer, inner_fill, composed, out, steps>>
    /\ UNCHANGED notRenderVars

\* lines 265-270
StarGlowStep ==
    /\ rpc = "star_glow"
    /\ layer' = StarGlow(layer, size)
    /\ steps' = Append(steps, "glow_under_sharp")
    /\ rpc' = "downscale"
    /\ UNCHANGED <<effect, size, out_size, phase, linear, outer, inner_fill, composed, out>>
    /\ UNCHANGED notRenderVars

\* line 272
StarDownscale ==
    /\ effect = "star" /\ rpc = "downscale"
    /\ out' = Downscale(layer, out_size)
    /\ steps' = Append(steps, "downscale")
    /\ rpc' = "sharpen"
    /\ UNCHANGED <<effect, size, out_size, phase, linear, layer, outer, inner_fill, composed>>
    /\ UNCHANGED notRenderVars

\* lines 273-274
StarSharpen ==
    /\ effect = "star" /\ rpc = "sharpen"
    /\ out' = Sharpen(out, 10, 140)
    /\ steps' = Append(steps, "sharpen")
    /\ rpc' = "done"
    /\ UNCHANGED <<effect, size, out_size, phase, linear, layer, outer, inner_fill, composed>>
    /\ UNCHANGED notRenderVars

RenderNext ==
    \/ FlameGradients
    \/ FlameOuterFill
    \/ FlameShade
    \/ FlameHighlight
    \/ FlameOuterMask
    \/ FlameInner
    \/ FlameCompose
    \/ FlameGlow
    \/ FlameEmber
    \/ FlameDownscale
    \/ FlameSharpen
    \/ StarDrawMain
    \/ StarDrawCore
    \/ StarDrawStreaks
    \/ StarDrawTwinkles
    \/ StarGlowStep
    \/ StarDownscale
    \/ StarSharpen

SpecRender == RenderInit /\ [][RenderNext]_vars

\* C5: for both effects and any canvas and output size, the frame evaluated
\* at phase 1.0 is identical to the frame at phase 0: every phase-dependent
\* quantity has the same value, also after integer truncation.
C5_AsStated ==
    (rpc = "done" /\ REq(phase, One)) => out = render_frame(effect, size, out_size, Zero)

\* the flame steps the prose lists, in its order, the ember only when lit
ExpectedFlameSteps(ph) ==
    <<"shade", "highlight", "mask_apply", "inner_over_outer", "glow_under_sharp">>
        \o (IF EmberOn(ph).m > 550000 THEN <<"ember_on_top">> ELSE <<>>)
        \o <<"downscale", "sharpen">>

\* C9: at every phase the flame compositor runs its steps in one order: edge
\* shading before the highlight, then the outer mask as alpha, the inner
\* layer over the outer, the glow underneath the sharp composite, the ember
\* on top last and only when the flicker exceeds 0.55, and only then the
\* downscale followed by the sharpen.
C9_FixedPipeline ==
    (effect = "flame" /\ rpc = "done") =>
        LET lin == FlameLinear(size, phase)
            shaded == alpha_composite(OuterFill(lin, phase), ShadeOverlay(size))
            lit == alpha_composite(shaded, HighlightOverlay(size, phase))
            masked == putalpha(lit, draw_flame_mask(size, phase, 100, 0, 0))
            sharp == alpha_composite(masked, InnerLayer(lin, size, phase))
            glowed == alpha_composite(GlowOf(sharp, size, 20, 115, 70), sharp)
            top == IF EmberOn(phase).m > 550000
                   THEN alpha_composite(glowed, Ember(size, phase))
                   ELSE glowed
        IN  /\ steps = ExpectedFlameSteps(phase)
            /\ out = top \o Tok("resize_lanczos", <<out_size, out_size>>)
                         \o Tok("unsharp_mask", <<12, 160, 2>>)

\* a finished flame frame with the ember lit (phase 13/24), and its ember is
\* the last thing composited before the downscale
C9_Witness ==
    /\ effect = "flame" /\ rpc = "done"
    /\ phase = R(13, frames)
    /\ EmberLit(phase)
    /\ steps[6] = "ember_on_top"
    /\ Len(steps) = 8

\* a finished flame frame at a phase where the flicker is at most 0.55
C9_WitnessNoEmber ==
    /\ effect = "flame" /\ rpc = "done"
    /\ ~EmberLit(phase)
    /\ Len(steps) = 7

----------------------------------------------------------------------------
(* main: lines 294-335 *)

\* line 299, `size`
MainSize == 320

\* line 298, `out_size`
MainOutSize == 64

\* the phase one step later than the index says
PhaseOfShifted(i) == R(i + 1, frames)

\* lines 302-303: i / frames
PhaseOf(i) == R(i, frames)

\* lines 310-311: rgba_to_gif_frame(f, colors=96), with the default threshold
GifFrameOf(f) == f \o Tok("rgba_to_gif_frame", <<8, 96>>)

\* lines 306-307: a still image
PngFile(name, im) == [name |-> name, images |-> <<im>>, duration |-> 0]

\* lines 313-333: frame 0 saved with the others appended, looping for ever
GifFile(name, ims, d) == [name |-> name, images |-> <<ims[1]>> \o Tail(ims), duration |-> d]

MainInit ==
    /\ LutIdle
    /\ GifIdle
    /\ RenderIdle
    /\ flame_rgba = <<>>
    /\ star_rgba = <<>>
    /\ flame_gif = <<>>
    /\ star_gif = <<>>
    /\ files = {}
    /\ calls = <<>>
    /\ loop_i = 0
    /\ mpc = "mkdir"

\* lines 295-300
MakeOutDir ==
    /\ mpc = "mkdir"
    /\ loop_i' = 0
    /\ mpc' = "flame_rgba"
    /\ UNCHANGED <<flame_rgba, star_rgba, flame_gif, star_gif, files, calls>>
    /\ UNCHANGED notMainVars

\* line 302, one element of the comprehension
RenderFlame ==
    /\ mpc = "flame_rgba" /\ loop_i < frames
    /\ flame_rgba' = Append(flame_rgba, render_flame_frame(MainSize, MainOutSize, PhaseOf(loop_i)))
    /\ calls' = Append(calls, <<"flame", PhaseOf(loop_i)>>)
    /\ loop_i' = loop_i + 1
    /\ UNCHANGED <<star_rgba, flame_gif, star_gif, files, mpc>>
    /\ UNCHANGED notMainVars

\* line 302, range(frames) is exhausted
FlameFramesDone ==
    /\ mpc = "flame_rgba" /\ loop_i >= frames
    /\ loop_i' = 0
    /\ mpc' = "star_rgba"
    /\ UNCHANGED <<flame_rgba, star_rgba, flame_gif, star_gif, files, calls>>
    /\ UNCHANGED notMainVars

\* line 303, one element of the comprehension
RenderStar ==
    /\ mpc = "star_rgba" /\ loop_i < frames
    /\ star_rgba' = Append(star_rgba, render_star_frame(MainSize, MainOutSize, PhaseOf(loop_i)))
    /\ calls' = Append(calls, <<"star", PhaseOf(loop_i)>>)
    /\ loop_i' = loop_i + 1
    /\ UNCHANGED <<flame_rgba, flame_gif, star_gif, files, mpc>>
    /\ UNCHANGED notMainVars

\* line 303, range(frames) is exhausted
StarFramesDone ==
    /\ mpc = "star_rgba" /\ loop_i >= frames
    /\ loop_i' = 0
    /\ mpc' = "flame_png"
    /\ UNCHANGED <<flame_rgba, star_rgba, flame_gif, star_gif, files, calls>>
    /\ UNCHANGED notMainVars

\* line 306
SaveFlamePng ==
    /\ mpc = "flame_png"
    /\ files' = files \cup {PngFile("flame.png", flame_rgba[1])}
    /\ mpc' = "star_png"
    /\ UNCHANGED <<flame_rgba, star_rgba, flame_gif, star_gif, calls, loop_i>>
    /\ UNCHANGED notMainVars

\* line 307
SaveStarPng ==
    /\ mpc = "star_png"
    /\ files' = files \cup {PngFile("star.png", star_rgba[1])}
    /\ mpc' = "flame_gif"
    /\ UNCHANGED <<flame_rgba, star_rgba, flame_gif, star_gif, calls, loop_i>>
    /\ UNCHANGED notMainVars

\* line 310, one element of the comprehension
QuantizeFlame ==
    /\ mpc = "flame_gif" /\ loop_i < Len(flame_rgba)
    /\ flame_gif' = Append(flame_gif, GifFrameOf(flame_rgba[loop_i + 1]))
    /\ loop_i' = loop_i + 1
    /\ UNCHANGED <<flame_rgba, star_rgba, star_gif, files, calls, mpc>>
    /\ UNCHANGED notMainVars

\* line 310, flame_rgba is exhausted
FlameGifDone ==
    /\ mpc = "flame_gif" /\ loop_i >= Len(flame_rgba)
    /\ loop_i' = 0
    /\ mpc' = "star_gif"
    /\ UNCHANGED <<flame_rgba, star_rgba, flame_gif, star_gif, files, calls>>
    /\ UNCHANGED notMainVars

\* line 311, one element of the comprehension
QuantizeStar ==
    /\ mpc = "star_gif" /\ loop_i < Len(star_rgba)
    /\ star_gif' = Append(star_gif, GifFrameOf(star_rgba[loop_i + 1]))
    /\ loop_i' = loop_i + 1
    /\ UNCHANGED <<flame_rgba, star_rgba, flame_gif, files, calls, mpc>>
    /\ UNCHANGED notMainVars

\* line 311, star_rgba is exhausted
StarGifDone ==
    /\ mpc = "star_gif" /\ loop_i >= Len(star_rgba)
    /\ loop_i' = 0
    /\ mpc' = "save_flame_gif"
    /\ UNCHANGED <<flame_rgba, star_rgba, flame_gif, star_gif, files, calls>>
    /\ UNCHANGED notMainVars

\* lines 313-322
SaveFlameGif ==
    /\ mpc = "save_flame_gif"
    /\ files' = files \cup {GifFile("flame.gif", flame_gif, 50)}
    /\ mpc' = "save_star_gif"
    /\ UNCHANGED <<flame_rgba, star_rgba, flame_gif, star_gif, calls, loop_i>>
    /\ UNCHANGED notMainVars

\* lines 324-333
SaveStarGif ==
    /\ mpc = "save_star_gif"
    /\ files' = files \cup {GifFile("star.gif", star_gif, 55)}
    /\ mpc' = "print"
    /\ UNCHANGED <<flame_rgba, star_rgba, flame_gif, star_gif, calls, loop_i>>
    /\ UNCHANGED notMainVars

\* line 335
PrintWrote ==
    /\ mpc = "print"
    /\ mpc' = "done"
    /\ UNCHANGED <<flame_rgba, star_rgba, flame_gif, star_gif, files, calls, loop_i>>
    /\ UNCHANGED notMainVars

MainNext ==
    \/ MakeOutDir
    \/ RenderFlame
    \/ FlameFramesDone
    \/ RenderStar
    \/ StarFramesDone
    \/ SaveFlamePng
    \/ SaveStarPng
    \/ QuantizeFlame
    \/ FlameGifDone
    \/ QuantizeStar
    \/ StarGifDone
    \/ SaveFlameGif
    \/ SaveStarGif
    \/ PrintWrote

SpecMain == MainInit /\ [][MainNext]_vars

\* the calls of one frame function, in the order they were made
CallsOf(fx) == SelectSeq(calls, LAMBDA c : c[1] = fx)

\* the phases of a run of calls start at 0, stay below 1 and go up by 1/frames
EvenlySpaced(cs) ==
    /\ cs # <<>> => REq(cs[1][2], Zero)
    /\ \A k \in 1..Len(cs) : RLe(Zero, cs[k][2]) /\ RLt(cs[k][2], One)
    /\ \A k \in 1..(Len(cs) - 1) :
          /\ RLt(cs[k][2], cs[k + 1][2])
          /\ REq(RSub(cs[k + 1][2], cs[k][2]), R(1, frames))

\* the images saved under a name, <<>> when nothing was
SavedImages(name) ==
    IF \E f \in files : f.name = name
    THEN (CHOOSE f \in files : f.name = name).images
    ELSE <<>>

\* C6: each effect's sequence has exactly N frames once it is built, its
\* k-th frame (k = 0..N-1) is the frame function at phase k/N, the phases
\* are evenly spaced, strictly increasing and all in [0,1), the quantized
\* frames keep the order, and the still image is frame 0.
C6_AnimationDriver ==
    /\ \A k \in 1..Len(flame_rgba) :
          flame_rgba[k] = render_flame_frame(320, 64, [num |-> k - 1, den |-> 24])
    /\ \A k \in 1..Len(star_rgba) :
          star_rgba[k] = render_star_frame(320, 64, [num |-> k - 1, den |-> 24])
    /\ EvenlySpaced(CallsOf("flame"))
    /\ EvenlySpaced(CallsOf("star"))
    /\ Len(CallsOf("flame")) = Len(flame_rgba)
    /\ Len(CallsOf("star")) = Len(star_rgba)
    /\ \A k \in 1..Len(flame_gif) :
          flame_gif[k] = flame_rgba[k] \o Tok("rgba_to_gif_frame", <<8, 96>>)
    /\ \A k \in 1..Len(star_gif) :
          star_gif[k] = star_rgba[k] \o Tok("rgba_to_gif_frame", <<8, 96>>)
    /\ mpc \notin {"mkdir", "flame_rgba"} => Len(flame_rgba) = 24
    /\ mpc \notin {"mkdir", "flame_rgba", "star_rgba"} => Len(star_rgba) = 24
    /\ mpc \in {"print", "done"} =>
          /\ SavedImages("flame.png") = <<flame_rgba[1]>>
          /\ SavedImages("star.png") = <<star_rgba[1]>>
          /\ SavedImages("flame.gif") = flame_gif
          /\ SavedImages("star.gif") = star_gif
          /\ Len(flame_gif) = 24
          /\ Len(star_gif) = 24
          /\ Cardinality(files) = 4

\* main has finished: 24 frames of each effect, the last one at phase 23/24
C6_Witness ==
    /\ mpc = "done"
    /\ Len(calls) = 2 * frames
    /\ calls[frames] = <<"flame", R(frames - 1, frames)>>
    /\ Len(SavedImages("star.gif")) = frames

====
